---- MODULE Spec2Model ----
(***************************************************************************)
(* Model of AuthenticatedApp (src/App.tsx): the transactions state fed by  *)
(* the Firestore subscription, the report filters, and the two memoised    *)
(* derived views, summary and reportData, and the three handlers that     *)
(* call the store and the analysis service.                                *)
(*                                                                         *)
(* Time is in milliseconds, as Date.getTime() gives it.  Calendar days are *)
(* numbered from 2024-01-31 (day 0), so that day 1 is 2024-02-01, the      *)
(* first day of a month; an instant is the number of milliseconds since    *)
(* 00:00:00.000 UTC of day 0.  tz is the environment's UTC offset in       *)
(* milliseconds (local time = UTC + tz); daylight-saving changes are not   *)
(* modelled.                                                               *)
(*                                                                         *)
(* A date string is a record [kind, day, ms]:                              *)
(*   "date"   YYYY-MM-DD                 (ms = 0)                          *)
(*   "local"  YYYY-MM-DDTHH:mm:ss.sss    (no zone designator)              *)
(*   "utc"    YYYY-MM-DDTHH:mm:ss.sssZ                                     *)
(* day and ms are the calendar day and the time of day that are written    *)
(* in the string.                                                          *)
(***************************************************************************)
EXTENDS Integers, Sequences, FiniteSets

MsPerHour == 3600000
MsPerDay == 86400000
\* setHours(23, 59, 59, 999): the time of day it sets, in milliseconds.
EndOfDayMs == 23 * MsPerHour + 59 * 60000 + 59 * 1000 + 999

\* The longest collection the store holds for this user.
MaxTx == 2

\* UTC offsets of the environments the code runs in.
TzOffsets == {0 - 12 * MsPerHour, 0 - 3 * MsPerHour, 0, 2 * MsPerHour, 14 * MsPerHour}

VARIABLES
  tz,                  \* UTC offset of the environment
  now,                 \* the clock when the component was constructed
  user,                \* useAuth().user: "u1", or "none"
  db,                  \* firebaseConfig's db handle: TRUE when configured
  subscription,        \* the subscription effect: "pending" until it has run,
                       \* then "skipped", "listening", or "failed"
  store,               \* document ids of this user's transactions at the server
  dirty,               \* a snapshot is due to the listener
  transactions,        \* useState<Transaction[]>
  loadingTransactions, \* useState(true)
  reportFilters,       \* useState<ReportFilters>
  summary,             \* useMemo, deps [transactions]
  reportData,          \* useMemo, deps [transactions, reportFilters]
  aiState,             \* useState<AIAnalysisResult>
  aiRequests,          \* the calls of analyzeTransactions, in the order they
                       \* were made: "pending", "resolved" or "rejected"
  requests,            \* the addDoc and deleteDoc calls that have not returned
  calls,               \* how many times the add and delete handlers were invoked
  alerts,              \* how many alerts were shown
  confirm              \* the window.confirm dialog of handleDeleteTransaction

handlerVars == <<aiState, aiRequests, requests, calls, alerts, confirm>>

vars == <<tz, now, user, db, subscription, store, dirty, transactions,
          loadingTransactions, reportFilters, summary, reportData,
          aiState, aiRequests, requests, calls, alerts, confirm>>

-----------------------------------------------------------------------------
(* Dates *)

DateOnly(day) == [kind |-> "date", day |-> day, ms |-> 0]
LocalTime(day, ms) == [kind |-> "local", day |-> day, ms |-> ms]
UtcTime(day, ms) == [kind |-> "utc", day |-> day, ms |-> ms]

\* new Date(s).getTime(): a date-only string is UTC midnight, a date-time
\* without zone designator is local time, one ending in Z is UTC.
ParseDate(s) ==
  CASE s.kind = "date" -> s.day * MsPerDay
    [] s.kind = "utc" -> s.day * MsPerDay + s.ms
    [] s.kind = "local" -> s.day * MsPerDay + s.ms - tz

\* The local calendar day and local time of day of an instant.
LocalDay(instant) == (instant + tz) \div MsPerDay
LocalMs(instant) == (instant + tz) % MsPerDay

\* d.setHours(23, 59, 59, 999): the local time fields of d are replaced,
\* its local calendar day is kept.
SetHoursEndOfDay(instant) == LocalDay(instant) * MsPerDay + EndOfDayMs - tz

\* d.toISOString().split('T')[0]: the UTC calendar date of d.
IsoDatePart(instant) == DateOnly(instant \div MsPerDay)

\* The first day of the month that holds a day (January and February 2024).
FirstDayOfMonth(day) == IF day >= 1 THEN 1 ELSE 0 - 30

\* new Date(y, m, 1) for y, m the local year and month of an instant: local
\* midnight of the first day of that month.
FirstOfLocalMonth(instant) == FirstDayOfMonth(LocalDay(instant)) * MsPerDay - tz

\* Order of two date strings as strings (the order Firestore sorts them in):
\* the date part first, then the time part; a string that is a prefix of
\* another comes before it.
KindRank(k) == CASE k = "date" -> 0 [] k = "local" -> 1 [] k = "utc" -> 2
DateStrLess(a, b) ==
  \/ a.day < b.day
  \/ /\ a.day = b.day
     /\ \/ a.kind = "date" /\ b.kind # "date"
        \/ a.kind # "date" /\ b.kind # "date" /\ a.ms < b.ms
        \/ a.kind # "date" /\ b.kind # "date" /\ a.ms = b.ms
             /\ KindRank(a.kind) < KindRank(b.kind)

-----------------------------------------------------------------------------
(* The documents that may exist in the "transactions" collection for this  *)
(* user.  A document is immutable: its name fixes its data.                *)

DocIds == 1..5

DocData(id) ==
  CASE id = 1 -> [date |-> LocalTime(1, 23 * MsPerHour), amount |-> 100,
                  type |-> "income", category |-> "7.1 - Vendas"]
    [] id = 2 -> [date |-> LocalTime(2, 60000), amount |-> 40,
                  type |-> "expense", category |-> "Outros"]
    [] id = 3 -> [date |-> LocalTime(1, 0), amount |-> 60,
                  type |-> "income", category |-> "outros"]
    [] id = 4 -> [date |-> LocalTime(0, 23 * MsPerHour), amount |-> 40,
                  type |-> "expense", category |-> "7.1 - Vendas"]
    [] id = 5 -> [date |-> UtcTime(1, 0), amount |-> 0,
                  type |-> "expense", category |-> "Outros"]

-----------------------------------------------------------------------------
(* The Firestore query and the snapshot callback *)

\* orderBy("date", "desc"): d comes before e in the query's result.  Equal
\* dates are ordered by document name, in the same direction.
DocBefore(d, e) ==
  \/ DateStrLess(DocData(e).date, DocData(d).date)
  \/ DocData(e).date = DocData(d).date /\ d > e

\* The documents of a snapshot of the query over the documents S.
RECURSIVE QuerySnapshot(_)
QuerySnapshot(S) ==
  IF S = {} THEN <<>>
  ELSE LET top == CHOOSE d \in S : \A e \in S \ {d} : DocBefore(d, e)
       IN  <<[id |-> top, data |-> DocData(top)]>> \o QuerySnapshot(S \ {top})

\* { id: doc.id, ...doc.data() }
TxOfDoc(doc) ==
  [id |-> doc.id, date |-> doc.data.date, amount |-> doc.data.amount,
   type |-> doc.data.type, category |-> doc.data.category]

\* A callback that kept what it held and added the snapshot's documents.
MergedTxs(prev, snap) == prev \o [i \in 1..Len(snap) |-> TxOfDoc(snap[i])]

\* The callback's txs: built from nothing, one element pushed per document,
\* then given to setTransactions.
SnapshotTxs(prev, snap) == [i \in 1..Len(snap) |-> TxOfDoc(snap[i])]

-----------------------------------------------------------------------------
(* summary *)

\* A reduce whose callback drops the accumulator.
SumAmountsLast(s) == IF s = <<>> THEN 0 ELSE s[Len(s)].amount

RECURSIVE SumAmounts(_)
\* reduce((acc, t) => acc + t.amount, 0)
SumAmounts(s) == IF s = <<>> THEN 0 ELSE SumAmounts(SubSeq(s, 1, Len(s) - 1)) + s[Len(s)].amount

IsIncome(t) == t.type = "income"
IsExpense(t) == t.type = "expense"

\* A summary whose income total takes every transaction.
SummaryIncomeOfAll(T) ==
  LET income == SumAmounts(T)
      expense == SumAmounts(SelectSeq(T, IsExpense))
  IN  [totalIncome |-> income, totalExpense |-> expense, balance |-> income - expense]

ComputeSummary(T) ==
  LET income == SumAmounts(SelectSeq(T, IsIncome))
      expense == SumAmounts(SelectSeq(T, IsExpense))
  IN  [totalIncome |-> income, totalExpense |-> expense, balance |-> income - expense]

-----------------------------------------------------------------------------
(* reportData *)

tDate(t) == ParseDate(t.date)
sDate(F) == ParseDate(F.startDate)
eDate(F) == SetHoursEndOfDay(ParseDate(F.endDate))

\* A date clause that takes a transaction on either side of one bound.
DateMatchEither(t, F) == tDate(t) >= sDate(F) \/ tDate(t) <= eDate(F)

dateMatch(t, F) == tDate(t) >= sDate(F) /\ tDate(t) <= eDate(F)

typeMatch(t, F) == F.type = "all" \/ t.type = F.type

\* A category clause that compares without regard to case.
CatMatchNoCase(t, F) ==
  LET lower(c) == IF c = "Outros" THEN "outros" ELSE c
  IN  F.category = "all" \/ lower(t.category) = lower(F.category)

catMatch(t, F) == F.category = "all" \/ t.category = F.category

\* The comparator of the sort, the other way round.
CompareDatesDesc(a, b) == tDate(b) - tDate(a)

\* (a, b) => new Date(a.date).getTime() - new Date(b.date).getTime()
CompareDates(a, b) == tDate(a) - tDate(b)

\* Array.prototype.sort with CompareDates: stable, ascending.
RECURSIVE InsertSorted(_, _)
InsertSorted(x, s) ==
  IF s = <<>> THEN <<x>>
  ELSE IF CompareDates(Head(s), x) <= 0
       THEN <<Head(s)>> \o InsertSorted(x, Tail(s))
       ELSE <<x>> \o s

RECURSIVE JsSort(_)
JsSort(s) ==
  IF s = <<>> THEN <<>>
  ELSE InsertSorted(s[Len(s)], JsSort(SubSeq(s, 1, Len(s) - 1)))

\* A report that sorts the state's array itself and filters afterwards.
ReportSortingSource(T, F) ==
  LET keep(t) == dateMatch(t, F) /\ typeMatch(t, F) /\ catMatch(t, F)
  IN  [source |-> JsSort(T), result |-> SelectSeq(JsSort(T), keep)]

\* transactions.filter(...).sort(...): filter returns a new array, which sort
\* orders in place and returns.  source is the array that was filtered, as
\* it is afterwards.
ComputeReport(T, F) ==
  LET keep(t) == dateMatch(t, F) /\ typeMatch(t, F) /\ catMatch(t, F)
  IN  [source |-> T, result |-> JsSort(SelectSeq(T, keep))]

\* The period totals under the report table.
ReportIncomeOfAll(R, T) == SumAmounts(SelectSeq(T, IsIncome))
ReportIncome(R, T) == SumAmounts(SelectSeq(R, IsIncome))
ReportExpenseOfAll(R, T) == SumAmounts(SelectSeq(T, IsExpense))
ReportExpense(R, T) == SumAmounts(SelectSeq(R, IsExpense))
reportIncome == ReportIncome(reportData, transactions)
reportExpense == ReportExpense(reportData, transactions)

-----------------------------------------------------------------------------
(* State *)

\* Clock readings at which the component is constructed: 12:00 UTC of day 1,
\* and with it 23:00 UTC of day 1 and 01:00 UTC of day 2.
Noon == MsPerDay + 12 * MsPerHour
NowTimes == {Noon, MsPerDay + 23 * MsPerHour, 2 * MsPerDay + MsPerHour}

\* The values the four filter controls offer.
FilterDates == {DateOnly(d) : d \in 0..2}
FilterTypes == {"all", "income", "expense"}
PGC_CATEGORIES == {"7.1 - Vendas", "Outros"}
FilterCategories == {"all"} \cup PGC_CATEGORIES

\* useState<ReportFilters>({...}) at construction.
InitialFilters(clock) ==
  [startDate |-> IsoDatePart(FirstOfLocalMonth(clock)),
   endDate |-> IsoDatePart(clock),
   type |-> "all",
   category |-> "all"]

\* useMemo dependency lists: whether the memoised value is computed again,
\* given which of the two states was set to a new value.
SummaryDepsChanged(txNew, filtersNew) == txNew
ReportDepsOnlyTransactions(txNew, filtersNew) == txNew
ReportDepsChanged(txNew, filtersNew) == txNew \/ filtersNew

\* One render with transactions T and filters F.
Render(T, F, txNew, filtersNew) ==
  LET rep == ComputeReport(T, F)
  IN  /\ summary' = IF SummaryDepsChanged(txNew, filtersNew) THEN ComputeSummary(T) ELSE summary
      /\ reportData' = IF ReportDepsChanged(txNew, filtersNew) THEN rep.result ELSE reportData
      /\ transactions' = IF ReportDepsChanged(txNew, filtersNew) THEN rep.source ELSE T

Stores == {S \in SUBSET DocIds : Cardinality(S) <= MaxTx}

\* No confirm dialog is open.
Closed == [doc |-> 0, answer |-> "closed"]

\* The state after construction, for the clock readings in Clocks.
Constructed(Clocks) ==
  /\ tz \in TzOffsets
  /\ now \in Clocks
  /\ user = "u1"
  /\ db \in BOOLEAN
  /\ subscription = "pending"
  /\ store \in Stores
  /\ dirty = FALSE
  /\ transactions = <<>>
  /\ loadingTransactions = TRUE
  /\ reportFilters = InitialFilters(now)
  /\ summary = ComputeSummary(<<>>)
  /\ reportData = ComputeReport(<<>>, InitialFilters(now)).result
  /\ aiState = [analysis |-> <<>>, loading |-> FALSE, error |-> "null"]
  /\ aiRequests = <<>>
  /\ requests = {}
  /\ calls = 0
  /\ alerts = 0
  /\ confirm = Closed

Init == Constructed({Noon})

\* useEffect(() => { if (!user || !db) return; ... onSnapshot(q, ...) }, [user])
Subscribe ==
  /\ subscription = "pending"
  /\ IF user = "none" \/ ~db
     THEN subscription' = "skipped" /\ dirty' = FALSE
     ELSE subscription' = "listening" /\ dirty' = TRUE
  /\ UNCHANGED <<tz, now, user, db, store, transactions, loadingTransactions,
                 reportFilters, summary, reportData>>
  /\ UNCHANGED handlerVars

\* The listener's first callback, with a snapshot of the query.
OnSnapshot ==
  /\ subscription = "listening"
  /\ dirty
  /\ dirty' = FALSE
  /\ loadingTransactions' = FALSE
  /\ Render(SnapshotTxs(transactions, QuerySnapshot(store)), reportFilters, TRUE, FALSE)
  /\ UNCHANGED <<tz, now, user, db, subscription, store, reportFilters>>
  /\ UNCHANGED handlerVars

\* The listener's second callback: the listen failed, and no snapshot follows.
OnSnapshotError ==
  /\ subscription = "listening"
  /\ subscription' = "failed"
  /\ dirty' = FALSE
  /\ loadingTransactions' = FALSE
  /\ UNCHANGED <<tz, now, user, db, store, transactions, reportFilters, summary, reportData>>
  /\ UNCHANGED handlerVars

\* A document of this user is created at the server.
StoreAdd(id) ==
  /\ id \notin store
  /\ Cardinality(store) < MaxTx
  /\ store' = store \cup {id}
  /\ dirty' = (subscription = "listening")
  /\ UNCHANGED <<tz, now, user, db, subscription, transactions, loadingTransactions,
                 reportFilters, summary, reportData>>
  /\ UNCHANGED handlerVars

\* A document of this user is deleted at the server.
StoreDelete(id) ==
  /\ id \in store
  /\ store' = store \ {id}
  /\ dirty' = (subscription = "listening")
  /\ UNCHANGED <<tz, now, user, db, subscription, transactions, loadingTransactions,
                 reportFilters, summary, reportData>>
  /\ UNCHANGED handlerVars

\* setReportFilters(prev => ({ ...prev, [field]: value })), and the render
\* that follows.
SetFilter(F) ==
  /\ subscription # "pending"
  /\ reportFilters' = F
  /\ Render(transactions, F, FALSE, TRUE)
  /\ UNCHANGED <<tz, now, user, db, subscription, store, dirty, loadingTransactions>>
  /\ UNCHANGED handlerVars

SetStartDate(d) == SetFilter([reportFilters EXCEPT !.startDate = d])
SetEndDate(d) == SetFilter([reportFilters EXCEPT !.endDate = d])
SetType(ty) == SetFilter([reportFilters EXCEPT !.type = ty])
SetCategory(c) == SetFilter([reportFilters EXCEPT !.category = c])

Next ==
  \/ Subscribe
  \/ OnSnapshot
  \/ OnSnapshotError
  \/ \E id \in DocIds : StoreAdd(id)
  \/ \E id \in DocIds : StoreDelete(id)
  \/ \E d \in FilterDates : SetStartDate(d)
  \/ \E d \in FilterDates : SetEndDate(d)
  \/ \E ty \in FilterTypes : SetType(ty)
  \/ \E c \in FilterCategories : SetCategory(c)

Spec == Init /\ [][Next]_vars

\* The construction at every clock reading, followed by the effect and the
\* filter controls only (the store is empty and no snapshot is delivered).
InitStart == Constructed(NowTimes) /\ store = {}

NextStart ==
  \/ Subscribe
  \/ \E d \in FilterDates : SetStartDate(d)
  \/ \E d \in FilterDates : SetEndDate(d)
  \/ \E ty \in FilterTypes : SetType(ty)
  \/ \E c \in FilterCategories : SetCategory(c)

SpecStart == InitStart /\ [][NextStart]_vars

-----------------------------------------------------------------------------
(* handleAIAnalysis *)

\* How many calls of analyzeTransactions a behaviour makes.
MaxAiCalls == 2

\* The text analyzeTransactions resolves with for its n-th call, and the
\* empty string.
AnalysisText(n) == <<n>>
EmptyText == <<>>

NoTransactionsError == "Adicione transacoes primeiro para gerar uma analise."
ServiceError == "Erro ao comunicar com o servico de IA."

AiRefused(prev) == [analysis |-> EmptyText, loading |-> FALSE, error |-> NoTransactionsError]

\* A loading state that keeps the analysis and the error shown before.
AiLoadingKeepingRest(prev) == [prev EXCEPT !.loading = TRUE]

AiLoading(prev) == [analysis |-> EmptyText, loading |-> TRUE, error |-> "null"]
AiResolved(prev, n) == [analysis |-> AnalysisText(n), loading |-> FALSE, error |-> "null"]
AiRejected(prev, n) == [analysis |-> EmptyText, loading |-> FALSE, error |-> ServiceError]

\* handleAIAnalysis up to its await: with no transactions the error is set
\* and the handler returns; otherwise the loading state is set and
\* analyzeTransactions is called.
HandleAIAnalysis ==
  /\ subscription # "pending"
  /\ confirm = Closed
  /\ IF Len(transactions) = 0
     THEN /\ aiState' = AiRefused(aiState)
          /\ aiRequests' = aiRequests
     ELSE /\ Len(aiRequests) < MaxAiCalls
          /\ aiState' = AiLoading(aiState)
          /\ aiRequests' = Append(aiRequests, "pending")
  /\ UNCHANGED <<tz, now, user, db, subscription, store, dirty, transactions,
                 loadingTransactions, reportFilters, summary, reportData,
                 requests, calls, alerts, confirm>>

\* The n-th call of analyzeTransactions resolves and the handler goes on
\* after its await.
AiResolve(n) ==
  /\ n \in DOMAIN aiRequests
  /\ aiRequests[n] = "pending"
  /\ confirm = Closed
  /\ aiRequests' = [aiRequests EXCEPT ![n] = "resolved"]
  /\ aiState' = AiResolved(aiState, n)
  /\ UNCHANGED <<tz, now, user, db, subscription, store, dirty, transactions,
                 loadingTransactions, reportFilters, summary, reportData,
                 requests, calls, alerts, confirm>>

\* The n-th call of analyzeTransactions rejects and the handler goes on in
\* its catch block.
AiReject(n) ==
  /\ n \in DOMAIN aiRequests
  /\ aiRequests[n] = "pending"
  /\ confirm = Closed
  /\ aiRequests' = [aiRequests EXCEPT ![n] = "rejected"]
  /\ aiState' = AiRejected(aiState, n)
  /\ UNCHANGED <<tz, now, user, db, subscription, store, dirty, transactions,
                 loadingTransactions, reportFilters, summary, reportData,
                 requests, calls, alerts, confirm>>

\* The component at 12:00 UTC of day 1 in an environment at UTC, followed by
\* the subscription, changes of the store and the analysis handler.
InitAI == Constructed({Noon}) /\ tz = 0 /\ db

NextAI ==
  \/ Subscribe
  \/ OnSnapshot
  \/ \E id \in DocIds : StoreAdd(id)
  \/ \E id \in DocIds : StoreDelete(id)
  \/ HandleAIAnalysis
  \/ \E n \in 1..MaxAiCalls : AiResolve(n)
  \/ \E n \in 1..MaxAiCalls : AiReject(n)

SpecAI == InitAI /\ [][NextAI]_vars

-----------------------------------------------------------------------------
(* handleAddTransaction and handleDeleteTransaction *)

\* How many times the two handlers are invoked in a behaviour.
MaxCalls == 2

\* The handlers call no state setter: whatever they send, the list stays.
TxsOptimistic(T, op, doc) ==
  IF op = "add"
  THEN Append(T, TxOfDoc([id |-> doc, data |-> DocData(doc)]))
  ELSE SelectSeq(T, LAMBDA t : t.id # doc)

TxsAfterSend(T, op, doc) == T

\* if (window.confirm(...)) { if (!db) return; ... deleteDoc ... }
DeleteProceedsUnasked(answer, hasDb) == hasDb

DeleteProceeds(answer, hasDb) == answer = "accepted" /\ hasDb

\* if (!user || !db) return;
AddProceeds(u, hasDb) == u # "none" /\ hasDb

\* catch: console.error(...); alert(...)
AlertsUnchanged(a) == a

AlertsAfterCatch(a) == a + 1

Request(n, op, doc) == [n |-> n, op |-> op, doc |-> doc, status |-> "sent"]

PendingAdds == {r \in requests : r.op = "add" /\ r.status = "sent"}

\* handleAddTransaction(newTx), up to the await.  The document that addDoc
\* creates gets an id no other document has.
HandleAdd(doc) ==
  /\ subscription # "pending"
  /\ confirm = Closed
  /\ calls < MaxCalls
  /\ calls' = calls + 1
  /\ IF AddProceeds(user, db)
     THEN /\ doc \notin store
          /\ \A r \in requests : r.op = "add" => r.doc # doc
          /\ Cardinality(store) + Cardinality(PendingAdds) < MaxTx
          /\ requests' = requests \cup {Request(calls + 1, "add", doc)}
          /\ transactions' = TxsAfterSend(transactions, "add", doc)
     ELSE /\ requests' = requests
          /\ transactions' = transactions
  /\ UNCHANGED <<tz, now, user, db, subscription, store, dirty, loadingTransactions,
                 reportFilters, summary, reportData, aiState, aiRequests, alerts,
                 confirm>>

\* The delete button of a row: handleDeleteTransaction(t.id) opens the
\* confirm dialog, which blocks the page until it is answered.
ClickDelete(id) ==
  /\ confirm = Closed
  /\ calls < MaxCalls
  /\ \E i \in DOMAIN transactions : transactions[i].id = id
  /\ calls' = calls + 1
  /\ confirm' = [doc |-> id, answer |-> "open"]
  /\ UNCHANGED <<tz, now, user, db, subscription, store, dirty, transactions,
                 loadingTransactions, reportFilters, summary, reportData, aiState,
                 aiRequests, requests, alerts>>

\* The user accepts or declines the dialog.
AnswerConfirm(answer) ==
  /\ confirm.answer = "open"
  /\ confirm' = [confirm EXCEPT !.answer = answer]
  /\ UNCHANGED <<tz, now, user, db, subscription, store, dirty, transactions,
                 loadingTransactions, reportFilters, summary, reportData, aiState,
                 aiRequests, requests, calls, alerts>>

\* window.confirm returns and handleDeleteTransaction runs on, up to the await.
ContinueDelete ==
  /\ confirm.answer \in {"accepted", "declined"}
  /\ confirm' = Closed
  /\ IF DeleteProceeds(confirm.answer, db)
     THEN /\ requests' = requests \cup {Request(calls, "delete", confirm.doc)}
          /\ transactions' = TxsAfterSend(transactions, "delete", confirm.doc)
     ELSE /\ requests' = requests
          /\ transactions' = transactions
  /\ UNCHANGED <<tz, now, user, db, subscription, store, dirty, loadingTransactions,
                 reportFilters, summary, reportData, aiState, aiRequests, calls,
                 alerts>>

\* The store carries out a request; the promise resolves, and the handler,
\* which has nothing after the await, ends.
ServerApply(r) ==
  /\ r \in requests
  /\ r.status = "sent"
  /\ store' = IF r.op = "add" THEN store \cup {r.doc} ELSE store \ {r.doc}
  /\ dirty' = IF store' # store THEN subscription = "listening" ELSE dirty
  /\ requests' = (requests \ {r}) \cup {[r EXCEPT !.status = "ok"]}
  /\ UNCHANGED <<tz, now, user, db, subscription, transactions, loadingTransactions,
                 reportFilters, summary, reportData, aiState, aiRequests, calls,
                 alerts, confirm>>

\* The store refuses a request, or cannot be reached: the promise rejects.
ServerReject(r) ==
  /\ r \in requests
  /\ r.status = "sent"
  /\ requests' = (requests \ {r}) \cup {[r EXCEPT !.status = "rejected"]}
  /\ UNCHANGED <<tz, now, user, db, subscription, store, dirty, transactions,
                 loadingTransactions, reportFilters, summary, reportData, aiState,
                 aiRequests, calls, alerts, confirm>>

\* The handler's catch block runs for a rejected promise, and the handler ends.
Catch(r) ==
  /\ confirm = Closed
  /\ r \in requests
  /\ r.status = "rejected"
  /\ alerts' = AlertsAfterCatch(alerts)
  /\ requests' = (requests \ {r}) \cup {[r EXCEPT !.status = "failed"]}
  /\ UNCHANGED <<tz, now, user, db, subscription, store, dirty, transactions,
                 loadingTransactions, reportFilters, summary, reportData, aiState,
                 aiRequests, calls, confirm>>

Requests ==
  [n : 1..MaxCalls, op : {"add", "delete"}, doc : DocIds,
   status : {"sent", "ok", "rejected", "failed"}]

InitStore == Constructed({Noon}) /\ tz = 0

\* Callbacks of the page run only while no confirm dialog blocks it.  The
\* analysis is asked for at most once here; SpecAI has the repeated calls.
NextStore ==
  \/ Subscribe
  \/ confirm = Closed /\ OnSnapshot
  \/ \E doc \in DocIds : HandleAdd(doc)
  \/ \E id \in DocIds : ClickDelete(id)
  \/ \E answer \in {"accepted", "declined"} : AnswerConfirm(answer)
  \/ ContinueDelete
  \/ \E r \in Requests : ServerApply(r)
  \/ \E r \in Requests : ServerReject(r)
  \/ \E r \in Requests : Catch(r)
  \/ aiRequests = <<>> /\ HandleAIAnalysis
  \/ AiResolve(1)

SpecStore == InitStore /\ [][NextStore]_vars

-----------------------------------------------------------------------------
(* Properties *)

Range(s) == {s[i] : i \in DOMAIN s}
Count(s, x) == Cardinality({i \in DOMAIN s : s[i] = x})

\* A step in which the listener's snapshot callback runs.
IsDelivery == subscription = "listening" /\ dirty /\ ~dirty' /\ subscription' = "listening"

\* The three clauses of the report's predicate, for the filters in force.
InRange(t) == sDate(reportFilters) <= tDate(t) /\ tDate(t) <= eDate(reportFilters)
TypeClause(t) == reportFilters.type = "all" \/ t.type = reportFilters.type
CategoryClause(t) == reportFilters.category = "all" \/ t.category = reportFilters.category

\* C1: reportData holds exactly the transactions that satisfy the date,
\* type and category clauses together (the category compared as an exact
\* string), each as often as transactions holds it.
C1_ReportIsExactlyTheMatches ==
  \A t \in Range(transactions) \cup Range(reportData) :
    Count(reportData, t) =
      IF InRange(t) /\ TypeClause(t) /\ CategoryClause(t) THEN Count(transactions, t) ELSE 0

\* A category filter is set, a transaction whose category differs from it
\* only in case is left out, and another transaction is reported.
C1_Witness ==
  /\ reportFilters.category = "Outros"
  /\ reportData # <<>>
  /\ \E t \in Range(transactions) : t.category = "outros" /\ InRange(t) /\ TypeClause(t)

\* The calendar day written in a filter's date-only string.
StartDay == reportFilters.startDate.day
EndDay == reportFilters.endDate.day
NoTypeOrCategoryFilter == reportFilters.type = "all" /\ reportFilters.category = "all"

\* C2: with no type or category restriction, a transaction at any time of
\* day on endDate's calendar day (and not before the start bound) is in
\* reportData, and a transaction on a later calendar day is not, whatever
\* the UTC offset.  For startDate = endDate = D this takes in a transaction
\* dated D at 23:00 and leaves out one dated D+1 at 00:01.
C2_EndOfDayInclusion ==
  NoTypeOrCategoryFilter =>
    \A t \in Range(transactions) :
      /\ (LocalDay(tDate(t)) = EndDay /\ tDate(t) >= sDate(reportFilters))
           => t \in Range(reportData)
      /\ LocalDay(tDate(t)) > EndDay => t \notin Range(reportData)

\* C3: with no type or category restriction, a transaction at any time of
\* day on startDate's calendar day, from 00:00:00 on (and not after the end
\* bound), is in reportData, and a transaction on an earlier calendar day
\* is not, whatever the UTC offset.
C3_StartOfDayInclusion ==
  NoTypeOrCategoryFilter =>
    \A t \in Range(transactions) :
      /\ (LocalDay(tDate(t)) = StartDay /\ tDate(t) <= eDate(reportFilters))
           => t \in Range(reportData)
      /\ LocalDay(tDate(t)) < StartDay => t \notin Range(reportData)

\* C4: reportData is in ascending order of date instant.
C4_ReportSortedAscending ==
  \A i \in 1..(Len(reportData) - 1) : tDate(reportData[i]) <= tDate(reportData[i + 1])

\* The report holds two transactions, in the opposite order to the one the
\* snapshot delivered them in.
C4_Witness ==
  /\ Len(transactions) >= 2
  /\ Len(reportData) >= 2
  /\ \E i, j \in DOMAIN transactions :
       /\ i < j
       /\ reportData[1] = transactions[j]
       /\ reportData[2] = transactions[i]
       /\ tDate(transactions[j]) < tDate(transactions[i])

\* C5: the two period totals are the Aggregator's totalIncome and
\* totalExpense of reportData, and they differ from the dashboard summary's
\* whenever the filter leaves out a transaction with a non-zero amount.
C5_PeriodTotalsOverReport ==
  /\ reportIncome = ComputeSummary(reportData).totalIncome
  /\ reportExpense = ComputeSummary(reportData).totalExpense
  /\ (\E t \in Range(transactions) : t \notin Range(reportData) /\ t.amount # 0)
       => <<reportIncome, reportExpense>> # <<summary.totalIncome, summary.totalExpense>>

\* The filter leaves out an income with a non-zero amount and keeps another.
C5_Witness ==
  /\ reportIncome > 0
  /\ reportIncome < summary.totalIncome
  /\ \E t \in Range(transactions) : t \notin Range(reportData) /\ t.amount # 0

\* C6: when startDate is a later calendar date than endDate, reportData is
\* empty, whatever the collection, the type and category settings and the
\* UTC offset.
C6_InvertedRangeIsEmpty == StartDay > EndDay => reportData = <<>>

\* startDate is the day after endDate, away from UTC, with a transaction
\* whose instant lies between the start of endDate and the end of startDate.
C6_Witness ==
  /\ StartDay = EndDay + 1
  /\ tz # 0
  /\ reportData = <<>>
  /\ \E t \in Range(transactions) :
       /\ tDate(t) >= EndDay * MsPerDay
       /\ tDate(t) < (StartDay + 1) * MsPerDay

\* C7: computing the summary and the report leaves the transactions state
\* as it was.  Every step renders: after a step that delivers a snapshot,
\* transactions is the array the callback gave to setTransactions, and after
\* any other step it has the elements it had, in the order it had them.
C7_DerivedViewsLeaveTransactions ==
  [][transactions' = IF IsDelivery
                     THEN SnapshotTxs(transactions, QuerySnapshot(store))
                     ELSE transactions]_vars

\* The filter keeps every element of a collection of two or more, and the
\* report's order is not the collection's.
C7_Witness ==
  /\ Len(transactions) >= 2
  /\ Len(reportData) = Len(transactions)
  /\ reportData # transactions
  /\ subscription = "listening"
  /\ ~dirty

\* C8: when the application starts, the filter runs from the first day of
\* the current local month to today's local date, with type and category
\* "all", whatever the UTC offset and the time of day.
C8_InitialFilterIsLocalMonthToDate ==
  subscription = "pending" =>
    reportFilters = [startDate |-> DateOnly(FirstDayOfMonth(LocalDay(now))),
                     endDate |-> DateOnly(LocalDay(now)),
                     type |-> "all",
                     category |-> "all"]

\* C9: the rendered summary is the Aggregator's result for the current
\* transactions, and the rendered reportData is the Report Filter's result
\* for the current transactions and the current reportFilters.
C9_NoStaleDerivedView ==
  /\ summary = ComputeSummary(transactions)
  /\ reportData = ComputeReport(transactions, reportFilters).result

\* A snapshot has been delivered, the filters have been edited since
\* construction so that they leave a transaction out, and the store has
\* changed again.
C9_Witness ==
  /\ ~loadingTransactions
  /\ reportFilters # InitialFilters(now)
  /\ reportData # <<>>
  /\ Len(reportData) < Len(transactions)
  /\ dirty

\* C10: every delivery of a snapshot sets transactions to the snapshot's
\* documents, in the snapshot's order, each with id the document's name and
\* the document's data; nothing of the previous value is kept.
C10_SnapshotReplacesTransactions ==
  [][IsDelivery =>
       LET snap == QuerySnapshot(store)
       IN  /\ Len(transactions') = Len(snap)
           /\ \A i \in 1..Len(snap) :
                /\ transactions'[i].id = snap[i].id
                /\ transactions'[i].date = snap[i].data.date
                /\ transactions'[i].amount = snap[i].data.amount
                /\ transactions'[i].type = snap[i].data.type
                /\ transactions'[i].category = snap[i].data.category]_vars

\* A snapshot of one document has been delivered after the filters were
\* edited; the store holds just that document and no further snapshot is due.
C10_Witness ==
  /\ subscription = "listening"
  /\ ~dirty
  /\ ~loadingTransactions
  /\ Len(transactions) = 1
  /\ store = {transactions[1].id}
  /\ reportFilters # InitialFilters(now)

\* The sum of amount over the transactions of s at the positions in I.
RECURSIVE AmountAt(_, _)
AmountAt(s, I) ==
  IF I = {} THEN 0
  ELSE LET i == CHOOSE j \in I : TRUE IN s[i].amount + AmountAt(s, I \ {i})

TotalOfType(s, ty) == AmountAt(s, {i \in DOMAIN s : s[i].type = ty})

\* C11: summary.totalIncome is the sum of amount over the transactions of
\* type income, summary.totalExpense the sum over those of type expense, and
\* summary.balance is totalIncome - totalExpense.
C11_SummaryTotals ==
  /\ summary.totalIncome = TotalOfType(transactions, "income")
  /\ summary.totalExpense = TotalOfType(transactions, "expense")
  /\ summary.balance = summary.totalIncome - summary.totalExpense

\* The collection holds an income and an expense with different amounts.
C11_Witness ==
  /\ summary.totalIncome > 0
  /\ summary.totalExpense > 0
  /\ summary.balance # 0
  /\ summary.balance # summary.totalIncome + summary.totalExpense

\* The orders the elements of a sequence can be put in.
Permutations(s) ==
  {[i \in DOMAIN s |-> s[f[i]]] :
     f \in {g \in [DOMAIN s -> DOMAIN s] : \A i, j \in DOMAIN s : g[i] = g[j] => i = j}}

C13_EmptyAndNoMatch ==
  /\ transactions = <<>> =>
       summary = [totalIncome |-> 0, totalExpense |-> 0, balance |-> 0]
  /\ (\A t \in Range(transactions) : ~(InRange(t) /\ TypeClause(t) /\ CategoryClause(t)))
       => /\ reportData = <<>>
          /\ reportIncome = 0
          /\ reportExpense = 0

\* A collection with an income and an expense, none of which the filter
\* takes.
C13_Witness ==
  /\ summary.totalIncome > 0
  /\ summary.totalExpense > 0
  /\ \A t \in Range(transactions) : ~(InRange(t) /\ TypeClause(t) /\ CategoryClause(t))
  /\ reportData = <<>>

AiPending == {n \in DOMAIN aiRequests : aiRequests[n] = "pending"}

\* C16: in every reachable state, loading implies an empty analysis and no
\* error, and a non-empty analysis implies no error.  While transactions is
\* empty no call of the analysis service is made, and a step that sets
\* aiState without a call being made or returning (the handler invoked with
\* no transactions) happens only with transactions empty and leaves aiState
\* with an empty analysis, loading false and an error.
C16_AiStateShape ==
  /\ [](/\ aiState.loading => (aiState.analysis = EmptyText /\ aiState.error = "null")
        /\ aiState.analysis # EmptyText => aiState.error = "null")
  /\ [][/\ Len(transactions) = 0 => Len(aiRequests') = Len(aiRequests)
        /\ (aiRequests' = aiRequests /\ aiState' # aiState)
             => /\ Len(transactions) = 0
                /\ aiState'.analysis = EmptyText
                /\ ~aiState'.loading
                /\ aiState'.error # "null"]_vars

\* The handler has been invoked with no transactions while an earlier call
\* of the service, made when there were some, has not returned.
C16_Witness ==
  /\ Len(transactions) = 0
  /\ aiState.error = NoTransactionsError
  /\ AiPending # {}

\* What the handler sets aiState to when the n-th call has returned.
AiOutcome(n) ==
  IF aiRequests[n] = "resolved"
  THEN [analysis |-> AnalysisText(n), loading |-> FALSE, error |-> "null"]
  ELSE [analysis |-> EmptyText, loading |-> FALSE, error |-> ServiceError]

\* C17: while a call of the analysis service is pending, aiState.loading is
\* true; and once every call has returned, what aiState shows is the outcome
\* of the call made last (unless the handler has since refused to call, for
\* want of transactions), in whatever order the calls returned.
C17_LoadingUntilLatestOutcome ==
  /\ AiPending # {} => aiState.loading
  /\ (AiPending = {} /\ aiRequests # <<>> /\ aiState.error # NoTransactionsError)
       => aiState = AiOutcome(Len(aiRequests))

Failed(R) == {r \in R : r.status = "failed"}

Ids(T) == {T[i].id : i \in DOMAIN T}

\* C14: each request the store rejected gets exactly one alert, when the
\* handler's catch block runs: alerts counts the failed calls and nothing
\* else; the step that shows the alert leaves transactions, reportFilters,
\* aiState and the store as they were and sends nothing; a failed call stays
\* failed (it is not sent again), and there is never more than one request
\* per invocation of a handler.
C14_RejectedCallAlertsOnce ==
  /\ [](/\ alerts = Cardinality(Failed(requests))
        /\ Cardinality(requests) <= calls
        /\ \A r, q \in requests : r.n = q.n => r = q)
  /\ [][/\ \A r \in requests :
             (r.status = "rejected" /\ r \notin requests')
               => /\ alerts' = alerts + 1
                  /\ requests' = (requests \ {r}) \cup {[r EXCEPT !.status = "failed"]}
                  /\ UNCHANGED <<transactions, reportFilters, aiState, store, calls>>
        /\ \A r \in Failed(requests) : r \in requests'
        /\ alerts' # alerts
             => \E r \in requests : r.status = "rejected" /\ r \notin requests']_vars

\* An add and a delete were both rejected and both alerts have been shown,
\* with an analysis on display all the while.
C14_Witness ==
  /\ alerts = 2
  /\ \E a, d \in Failed(requests) : a.op = "add" /\ d.op = "delete"
  /\ aiState.analysis # EmptyText
  /\ transactions # <<>>

\* C15: transactions, and with it summary and reportData, changes only in a
\* step that delivers a snapshot; no step of handleAddTransaction or
\* handleDeleteTransaction (sending, the confirm dialog, the promise
\* settling, the catch block) changes them.
C15_ListChangesOnlyBySnapshot ==
  /\ [][(transactions' # transactions \/ summary' # summary \/ reportData' # reportData)
          => IsDelivery]_vars
  /\ [][(requests' # requests \/ calls' # calls \/ alerts' # alerts \/ confirm' # confirm)
          => UNCHANGED <<transactions, summary, reportData, loadingTransactions>>]_vars

\* The store has carried out an add and a delete, and no snapshot has been
\* delivered since: the added document is not in the list and the deleted
\* one is still in the list and in the summary.
C15_Witness ==
  /\ dirty
  /\ \E a, d \in requests :
       /\ a.op = "add" /\ a.status = "ok" /\ a.doc \in store
       /\ a.doc \notin Ids(transactions)
       /\ d.op = "delete" /\ d.status = "ok" /\ d.doc \notin store
       /\ d.doc \in Ids(transactions)
  /\ summary = ComputeSummary(transactions)

NewlySent == {r \in requests' : \A q \in requests : q.n # r.n}

\* C18: a delete request is sent only by the step in which the handler runs
\* on from a dialog that was accepted, for the document and the invocation of
\* that dialog, and with db configured; an add request is sent only with a
\* signed-in user and db configured; and the step that runs on from a
\* declined dialog changes nothing but the dialog, which closes.
C18_NothingSentUnasked ==
  [][/\ \A r \in NewlySent :
          IF r.op = "delete"
          THEN /\ confirm.answer = "accepted"
               /\ confirm.doc = r.doc
               /\ r.n = calls
               /\ db
          ELSE user # "none" /\ db
     /\ (confirm.answer = "declined" /\ confirm' # confirm)
          => /\ confirm' = Closed
             /\ UNCHANGED <<tz, now, user, db, subscription, store, dirty, transactions,
                            loadingTransactions, reportFilters, summary, reportData,
                            aiState, aiRequests, requests, calls, alerts>>]_vars

\* With db configured, a handler has been invoked and nothing was sent: the
\* dialog of a delete was declined.
C18_Witness ==
  /\ db
  /\ calls >= 1
  /\ confirm = Closed
  /\ requests = {}
  /\ alerts = 0
  /\ transactions # <<>>

====
